---- MODULE Spec2Model ----
(***************************************************************************)
(* A model of src/src/data_prep.py: the feature-preparation script that    *)
(* joins the ADAS, demographics, family-history and TOMM40 tables onto the *)
(* TADPOLE table, filters the columns by the metadata registry, coerces    *)
(* the numeric columns, writes the un-encoded snapshot, one-hot encodes    *)
(* the categorical columns and writes the encoded table.                   *)
(*                                                                         *)
(* A data frame is a record [idx, cols, c]: idx the sequence of row keys,  *)
(* cols the sequence of column names, c[j] the column named cols[j], with  *)
(* its dtype c[j].dt and its cells c[j].v.  A cell is a record [k,s,n,e]:  *)
(*   k = "na"    a missing value (NaN / None)                              *)
(*   k = "str"   a string, s its characters                                *)
(*   k = "int"   the integer n                                             *)
(*   k = "float" the float n / 10^e (e fraction digits, none trailing 0)   *)
(* A column name is a record [src, lvl]: lvl = NoLvl for a source column   *)
(* and the level's cell for the indicator column "<src>_<lvl>".            *)
(***************************************************************************)
EXTENDS Integers, Sequences, FiniteSets, TLC

\* ------------------------------------------------------------------ cells

NA == [k |-> "na", s |-> <<>>, n |-> 0, e |-> 0]
Str(s) == [k |-> "str", s |-> s, n |-> 0, e |-> 0]
IntC(n) == [k |-> "int", s |-> <<>>, n |-> n, e |-> 0]
FltC(n, e) == [k |-> "float", s |-> <<>>, n |-> n, e |-> e]

IsNA(x) == x.k = "na"
IsNum(x) == x.k \in {"int", "float"}

\* The characters of the model, in ASCII order.
Chars ==
  << " ", "-", ".", "/",
     "0", "1", "2", "3", "4", "5", "6", "7", "8", "9",
     "<", ">",
     "A", "B", "C", "D", "E", "F", "G", "H", "I", "J", "K", "L", "M",
     "N", "O", "P", "Q", "R", "S", "T", "U", "V", "W", "X", "Y", "Z",
     "_",
     "a", "b", "c", "d", "e", "f", "g", "h", "i", "j", "k", "l", "m",
     "n", "o", "p", "q", "r", "s", "t", "u", "v", "w", "x", "y", "z" >>

Ord(c) == CHOOSE i \in 1..Len(Chars) : Chars[i] = c

DigitChars == <<"0", "1", "2", "3", "4", "5", "6", "7", "8", "9">>

IsDigit(c) == \E i \in 1..10 : DigitChars[i] = c

DigitVal(c) == (CHOOSE i \in 1..10 : DigitChars[i] = c) - 1

Max(a, b) == IF a >= b THEN a ELSE b

Min(a, b) == IF a <= b THEN a ELSE b

RECURSIVE Pow10(_)
Pow10(e) == IF e = 0 THEN 1 ELSE 10 * Pow10(e - 1)

Abs(n) == IF n < 0 THEN 0 - n ELSE n

\* The decimal digits of a natural number, as characters.
RECURSIVE NatDigits(_)
NatDigits(n) ==
  IF n < 10 THEN <<DigitChars[n + 1]>>
  ELSE NatDigits(n \div 10) \o <<DigitChars[(n % 10) + 1]>>

\* n written with exactly w digits (leading zeros).
RECURSIVE PadDigits(_, _)
PadDigits(n, w) ==
  IF w = 0 THEN <<>>
  ELSE PadDigits(n \div 10, w - 1) \o <<DigitChars[(n % 10) + 1]>>

\* The value of a digit string.
RECURSIVE DigitsNat(_)
DigitsNat(s) ==
  IF s = <<>> THEN 0
  ELSE 10 * DigitsNat(SubSeq(s, 1, Len(s) - 1)) + DigitVal(s[Len(s)])

AllDigits(s) == \A i \in 1..Len(s) : IsDigit(s[i])

\* A fraction's digits without its trailing zeros.
RECURSIVE StripZeros(_)
StripZeros(s) ==
  IF s # <<>> /\ s[Len(s)] = "0" THEN StripZeros(SubSeq(s, 1, Len(s) - 1))
  ELSE s

\* Python's str(x) of a cell: 'nan' for a missing float, the repr of a number
\* (an int has no fraction, a float always has one), the string itself.
PyStr(x) ==
  CASE x.k = "na" -> <<"n", "a", "n">>
    [] x.k = "str" -> x.s
    [] x.k = "int" -> (IF x.n < 0 THEN <<"-">> ELSE <<>>) \o NatDigits(Abs(x.n))
    [] x.k = "float" ->
         (IF x.n < 0 THEN <<"-">> ELSE <<>>)
           \o NatDigits(Abs(x.n) \div Pow10(x.e)) \o <<".">>
           \o (IF x.e = 0 THEN <<"0">> ELSE PadDigits(Abs(x.n) % Pow10(x.e), x.e))

\* The number a string spells, [-]digits[.digits]; Unparsed when it spells none.
Unparsed == [k |-> "bad", s |-> <<>>, n |-> 0, e |-> 0]

ParseUnsigned(s, sign) ==
  LET dots == {i \in 1..Len(s) : s[i] = "."} IN
  IF s = <<>> THEN Unparsed
  ELSE IF dots = {} THEN
    IF AllDigits(s) THEN IntC(sign * DigitsNat(s)) ELSE Unparsed
  ELSE IF Cardinality(dots) > 1 THEN Unparsed
  ELSE
    LET d == CHOOSE i \in dots : TRUE
        ip == SubSeq(s, 1, d - 1)
        fp == SubSeq(s, d + 1, Len(s))
        fz == StripZeros(fp)
    IN  IF Len(ip) + Len(fp) > 0 /\ AllDigits(ip) /\ AllDigits(fp)
        THEN FltC(sign * DigitsNat(ip \o fz), Len(fz))
        ELSE Unparsed

ParseNumber(s) ==
  IF s # <<>> /\ s[1] = "-" THEN ParseUnsigned(SubSeq(s, 2, Len(s)), 0 - 1)
  ELSE ParseUnsigned(s, 1)

\* A total order on the cells of one column: numbers by value, strings by
\* their characters (Python's str comparison).
RECURSIVE StrLess(_, _)
StrLess(a, b) ==
  IF b = <<>> THEN FALSE
  ELSE IF a = <<>> THEN TRUE
  ELSE IF a[1] # b[1] THEN Ord(a[1]) < Ord(b[1])
  ELSE StrLess(Tail(a), Tail(b))

CellLess(x, y) ==
  IF IsNum(x) /\ IsNum(y) THEN x.n * Pow10(y.e) < y.n * Pow10(x.e)
  ELSE IF x.k = "str" /\ y.k = "str" THEN StrLess(x.s, y.s)
  ELSE FALSE

ToFloat(x) == IF x.k = "int" THEN FltC(x.n, 0) ELSE x

\* ----------------------------------------------------------------- frames

\* A column is [dt, v]: its dtype and its cells.  The dtype is what pandas
\* infers: "object" when a cell is a string, "int64" when every cell is an
\* integer, "float64" otherwise (a missing value makes integers floats).
NumSeries(v) ==
  IF Len(v) > 0 /\ (\A i \in 1..Len(v) : v[i].k = "int") THEN [dt |-> "int64", v |-> v]
  ELSE [dt |-> "float64", v |-> [i \in 1..Len(v) |-> ToFloat(v[i])]]

ObjSeries(v) == [dt |-> "object", v |-> v]

NoLvl == [k |-> "none", s |-> <<>>, n |-> 0, e |-> 0]

\* The name of a source column, and of the indicator column "<src>_<lvl>".
Col(name) == [src |-> name, lvl |-> NoLvl]

Dummy(name, lvl) == [src |-> name, lvl |-> lvl]

NoFrame == [idx |-> <<>>, cols |-> <<>>, c |-> <<>>]

NRows(t) == Len(t.idx)

HasCol(t, name) == \E j \in 1..Len(t.cols) : t.cols[j] = name

ColPos(t, name) == CHOOSE j \in 1..Len(t.cols) : t.cols[j] = name

Column(t, name) == t.c[ColPos(t, name)]

\* data[name] = col: replaces the column in place, or appends a new one.
SetColumn(t, name, col) ==
  IF HasCol(t, name) THEN [t EXCEPT !.c[ColPos(t, name)] = col]
  ELSE [t EXCEPT !.cols = Append(@, name), !.c = Append(@, col)]

SeqWithout(s, j) == SubSeq(s, 1, j - 1) \o SubSeq(s, j + 1, Len(s))

\* data.drop(name, axis=1)
DropColumn(t, name) ==
  LET j == ColPos(t, name) IN
  [t EXCEPT !.cols = SeqWithout(@, j), !.c = SeqWithout(@, j)]

HasDup(s) == \E i, j \in 1..Len(s) : i < j /\ s[i] = s[j]

SeqSet(s) == {s[i] : i \in 1..Len(s)}

RECURSIVE SelectIdx(_, _, _)
\* The positions i of 1..n, in order, that satisfy keep[i].
SelectIdx(keep, i, n) ==
  IF i > n THEN <<>>
  ELSE (IF keep[i] THEN <<i>> ELSE <<>>) \o SelectIdx(keep, i + 1, n)

\* The rows of t at the positions pos, in that order (a position 0 is a row of
\* missing values; an int64 column that gets one becomes float64).
TakeRows(t, pos) ==
  [j \in 1..Len(t.c) |->
     LET v == [r \in 1..Len(pos) |-> IF pos[r] = 0 THEN NA ELSE t.c[j].v[pos[r]]]
     IN  IF t.c[j].dt = "object" THEN ObjSeries(v)
         ELSE IF t.c[j].dt = "int64" /\ \A r \in 1..Len(pos) : pos[r] # 0
              THEN [dt |-> "int64", v |-> v]
         ELSE IF t.c[j].dt = "uint8" /\ \A r \in 1..Len(pos) : pos[r] # 0
              THEN [dt |-> "uint8", v |-> v]
         ELSE [dt |-> "float64", v |-> [r \in 1..Len(v) |-> ToFloat(v[r])]]]

\* t.loc[:, names]: the named columns, in the order of names.
SelectCols(t, names) ==
  [t EXCEPT !.cols = names,
            !.c = [j \in 1..Len(names) |-> Column(t, names[j])]]

MissingCols(t, names) == {j \in 1..Len(names) : ~HasCol(t, names[j])}

\* ------------------------------------------------------------- pd.read_csv

\* A file is [cols, rows]: the names of its value columns and its rows, each
\* [rid, vis, date, f]: the subject (RID), the visit code (VISCODE), the
\* timestamp (USERDATE, 0 when missing) and the fields of the value columns
\* as text.  An empty field is missing; a column whose fields all spell
\* numbers is numeric, any other column holds its fields as strings.
ReadCsvColumn(fields) ==
  LET n == Len(fields)
      p == [i \in 1..n |-> IF fields[i] = <<>> THEN NA ELSE ParseNumber(fields[i])]
  IN  IF \A i \in 1..n : p[i].k # "bad" THEN NumSeries(p)
      ELSE ObjSeries([i \in 1..n |-> IF fields[i] = <<>> THEN NA ELSE Str(fields[i])])

ReadCsv(file) ==
  [idx |-> [r \in 1..Len(file.rows) |->
              [rid |-> file.rows[r].rid, vis |-> file.rows[r].vis,
               date |-> file.rows[r].date]],
   cols |-> [j \in 1..Len(file.cols) |-> Col(file.cols[j])],
   c |-> [j \in 1..Len(file.cols) |->
            ReadCsvColumn([r \in 1..Len(file.rows) |-> file.rows[r].f[j]])]]

\* set_index(['RID', 'VISCODE']) and set_index('RID'): the new row keys.
\* verify_integrity=True raises when HasDup of them holds.
IndexRidVis(t) ==
  [t EXCEPT !.idx = [r \in 1..Len(t.idx) |-> [rid |-> t.idx[r].rid, vis |-> t.idx[r].vis]]]

IndexRid(t) == [t EXCEPT !.idx = [r \in 1..Len(t.idx) |-> t.idx[r].rid]]

\* verify_integrity=False
VerifyOff(keys) == TRUE

VerifyIntegrity(keys) == ~HasDup(keys)

\* t.loc[mask, :]
FilterRows(t, mask) ==
  LET pos == SelectIdx(mask, 1, NRows(t)) IN
  [t EXCEPT !.idx = [p \in 1..Len(pos) |-> t.idx[pos[p]]],
            !.c = [j \in 1..Len(t.c) |->
                     [dt |-> t.c[j].dt,
                      v |-> [p \in 1..Len(pos) |-> t.c[j].v[pos[p]]]]]]

\* ------------------------------------------------------------- left joins

\* The (left row, right row) pairs of a left join, in the order of the left
\* rows: every right row whose key equals the left row's key lkeys[r], or
\* the pair <<r, 0>> when there is none.
RECURSIVE JoinPairs(_, _, _)

\* An inner join: a left row without a match is dropped.
RECURSIVE JoinPairsInner(_, _, _)
JoinPairsInner(lkeys, rkeys, r) ==
  IF r > Len(lkeys) THEN <<>>
  ELSE
    LET m == SelectIdx([i \in 1..Len(rkeys) |-> rkeys[i] = lkeys[r]], 1, Len(rkeys))
    IN  [i \in 1..Len(m) |-> <<r, m[i]>>] \o JoinPairsInner(lkeys, rkeys, r + 1)

JoinPairs(lkeys, rkeys, r) ==
  IF r > Len(lkeys) THEN <<>>
  ELSE
    LET m == SelectIdx([i \in 1..Len(rkeys) |-> rkeys[i] = lkeys[r]], 1, Len(rkeys))
    IN  (IF m = <<>> THEN << <<r, 0>> >> ELSE [i \in 1..Len(m) |-> <<r, m[i]>>])
          \o JoinPairs(lkeys, rkeys, r + 1)

\* pd.merge(left, right, how="left", left_index=True, right_index=True) and
\* left.join(right, how="left"): lkeys[r] is the part of left's key of row r
\* that right is keyed by.
LeftJoin(left, lkeys, right) ==
  LET pairs == JoinPairs(lkeys, right.idx, 1)
      lpos == [p \in 1..Len(pairs) |-> pairs[p][1]]
      rpos == [p \in 1..Len(pairs) |-> pairs[p][2]]
  IN  [idx |-> [p \in 1..Len(pairs) |-> left.idx[lpos[p]]],
       cols |-> left.cols \o right.cols,
       c |-> TakeRows(left, lpos) \o TakeRows(right, rpos)]

RidOf(keys) == [r \in 1..Len(keys) |-> keys[r].rid]

\* --------------------------------------------------------- ADAS (25-38)

AdasFirst == 5
AdasLast == 20

\* set(columns) - set(columns[5:20]) is dropped: columns[5:20] stay.
AdasKeep(cols) == SubSeq(cols, AdasFirst + 1, Min(AdasLast, Len(cols)))

\* data_adas.columns = ["ADAS_" + c for c in data_adas.columns]
AdasRename(t) ==
  [t EXCEPT !.cols = [j \in 1..Len(t.cols) |-> Col("ADAS_" \o t.cols[j].src)]]

\* ------------------------------------------------- demographics (49-73)

\* Twice the rank g['USERDATE'].rank(ascending=False) gives row i: the
\* default method is 'average', so the rows of a subject that share a
\* timestamp share the mean of their positions; a missing timestamp has no
\* rank (0).  The rank does not depend on the order sort_values leaves.
Rank2(keys, i) ==
  IF keys[i].date = 0 THEN 0
  ELSE
    LET grp == {j \in 1..Len(keys) : keys[j].rid = keys[i].rid /\ keys[j].date # 0}
        gt == Cardinality({j \in grp : keys[j].date > keys[i].date})
        eq == Cardinality({j \in grp : keys[j].date = keys[i].date})
    IN  2 * gt + eq + 1

\* data_demo.loc[data_demo['RNK'] == 1, cols]
LatestMask(keys) == [i \in 1..Len(keys) |-> Rank2(keys, i) = 2]

DemoCols ==
  << Col("PTHAND"), Col("PTWORK"), Col("PTWRECNT"), Col("PTNOTRT"),
     Col("PTRTYR"), Col("PTHOME"), Col("PTTLANG"), Col("PTPLANG") >>

\* ----------------------------------------------- family history (82-103)

\* data_fam.loc[data_fam['VISCODE'] == "sc", :]
ScreeningMask(keys) == [i \in 1..Len(keys) |-> keys[i].vis = "sc"]

FamCols ==
  << Col("FHQPROV"), Col("FHQMOM"), Col("FHQMOMAD"), Col("FHQDAD"),
     Col("FHQDADAD"), Col("FHQSIB") >>

\* ------------------------------------------------------- TOMM40 (112-121)

TomCols == << Col("TOMM40_A1"), Col("TOMM40_A2") >>

\* ---------------------------------------------- metadata filter (129-136)

\* The registry is a sequence of entries [column_name, keep, numeric,
\* categorical, data_type].
RECURSIVE SelectSeq2(_, _)
SelectSeq2(s, mask) ==
  IF s = <<>> THEN <<>>
  ELSE (IF Head(mask) THEN <<Head(s)>> ELSE <<>>) \o SelectSeq2(Tail(s), Tail(mask))

\* data_meta.loc[data_meta['keep'] == 1, :]
KeptMeta(meta) == SelectSeq2(meta, [i \in 1..Len(meta) |-> meta[i].keep = 1])

\* list(data_meta.column_name)
ColumnNames(meta) == [i \in 1..Len(meta) |-> Col(meta[i].column_name)]

\* The named columns in the order the table has them.
FilterColsSourceOrder(t, names) ==
  SelectCols(t, SelectSeq2(t.cols, [j \in 1..Len(t.cols) |-> t.cols[j] \in SeqSet(names)]))

\* data = data[cols]; a name that is no column of data raises KeyError.
FilterCols(t, names) == SelectCols(t, names)

\* ------------------------------------------ numerical features (145-159)

Blank == Str(<<" ">>)

\* data.replace(' ', np.nan): a cell that is exactly one space becomes
\* missing; an object column left without any string is soft-converted to
\* float64.
ReplaceBlank(col) ==
  LET v == [i \in 1..Len(col.v) |-> IF col.v[i] = Blank THEN NA ELSE col.v[i]] IN
  IF col.dt = "object" /\ (\A i \in 1..Len(v) : v[i].k = "na")
  THEN [dt |-> "float64", v |-> v]
  ELSE [dt |-> col.dt, v |-> v]

ReplaceBlanks(t) == [t EXCEPT !.c = [j \in 1..Len(t.c) |-> ReplaceBlank(t.c[j])]]

CensoredCols ==
  << Col("ABETA_UPENNBIOMK9_04_19_17"), Col("TAU_UPENNBIOMK9_04_19_17"),
     Col("PTAU_UPENNBIOMK9_04_19_17") >>

\* str.replace(pat, rep) of Python: every non-overlapping occurrence, from
\* the left.
RECURSIVE ReplaceAll(_, _, _)
ReplaceAll(s, pat, rep) ==
  IF Len(s) < Len(pat) THEN s
  ELSE IF SubSeq(s, 1, Len(pat)) = pat
       THEN rep \o ReplaceAll(SubSeq(s, Len(pat) + 1, Len(s)), pat, rep)
  ELSE <<Head(s)>> \o ReplaceAll(Tail(s), pat, rep)

\* data[c].str.replace("<", "").str.replace(">", ""): a cell that is no
\* string becomes missing.
StripCensor(x) ==
  IF x.k = "str" THEN Str(ReplaceAll(ReplaceAll(x.s, <<"<">>, <<>>), <<">">>, <<>>))
  ELSE NA

\* pd.to_numeric(x) of one cell, errors='raise': Unparsed stands for the
\* ValueError a string that spells no number raises.
ToNumeric(x) == IF x.k = "str" THEN ParseNumber(x.s) ELSE x

\* pd.to_numeric(x, errors='coerce'): a string that spells no number becomes
\* missing.
ToNumericCoerce(x) ==
  LET y == ToNumeric(x) IN IF y.k = "bad" THEN NA ELSE y

\* numeric_cols: the kept entries with numeric == 1 and data_type == 'object'.
NumericCols(meta) ==
  ColumnNames(SelectSeq2(meta,
    [i \in 1..Len(meta) |-> meta[i].numeric = 1 /\ meta[i].data_type = "object"]))

\* The censored-column loop (152-153): the frame it leaves and, in err, the
\* exception that ends it ("" when none does).
RECURSIVE StripLoop(_, _)
StripLoop(t, i) ==
  IF i > Len(CensoredCols) THEN [err |-> "", t |-> t]
  ELSE IF ~HasCol(t, CensoredCols[i]) THEN [err |-> "KeyError", t |-> t]
  ELSE
    LET col == Column(t, CensoredCols[i]) IN
    IF col.dt # "object" THEN [err |-> "AttributeError", t |-> t]
    ELSE StripLoop(SetColumn(t, CensoredCols[i],
                     ObjSeries([r \in 1..Len(col.v) |-> StripCensor(col.v[r])])),
                   i + 1)

\* The coercion loop (158-159).
RECURSIVE NumericLoop(_, _, _)
NumericLoop(t, cols, i) ==
  IF i > Len(cols) THEN [err |-> "", t |-> t]
  ELSE IF ~HasCol(t, cols[i]) THEN [err |-> "KeyError", t |-> t]
  ELSE
    LET col == Column(t, cols[i])
        v == [r \in 1..Len(col.v) |-> ToNumeric(col.v[r])]
    IN  IF \E r \in 1..Len(v) : v[r].k = "bad" THEN [err |-> "ValueError", t |-> t]
        ELSE NumericLoop(SetColumn(t, cols[i], NumSeries(v)), cols, i + 1)

CleanNumeric(t, meta) ==
  LET a == StripLoop(ReplaceBlanks(t), 1) IN
  IF a.err # "" THEN a ELSE NumericLoop(a.t, NumericCols(meta), 1)

\* ------------------------------------------------ retirement year (168-170)

\* str(x)[-4:]
Last4(s) == SubSeq(s, Max(1, Len(s) - 3), Len(s))

\* data_for_viz['PTRTYR'] of lines 168-170.
RetireYearViz(col) ==
  NumSeries([r \in 1..Len(col.v) |-> ToNumericCoerce(Str(Last4(PyStr(col.v[r]))))])

\* The first four characters instead of the last four.
RetireYearFirst4(col) ==
  NumSeries([r \in 1..Len(col.v) |->
               ToNumericCoerce(Str(SubSeq(PyStr(col.v[r]), 1, Min(4, Len(PyStr(col.v[r]))))))])

\* data['PTRTYR'] of lines 233-234.
RetireYear(col) ==
  NumSeries([r \in 1..Len(col.v) |-> ToNumericCoerce(Str(Last4(PyStr(col.v[r]))))])

\* data_for_viz = data: the two names share the columns.
AliasKeeps(orig, edited) == edited

\* data.copy(deep=True): what the working table holds once the copy has
\* been changed into edited.
DeepCopyKeeps(orig, edited) == orig

\* -------------------------------------------- categorical features (180-225)

LowerChar(ch) ==
  LET i == Ord(ch) IN
  IF i >= Ord("A") /\ i <= Ord("Z") THEN Chars[i + (Ord("a") - Ord("A"))] ELSE ch

Lower(s) == [i \in 1..Len(s) |-> LowerChar(s[i])]

\* clean_string(row): a value that is no string has no lower() and becomes
\* None.
clean_string(x) ==
  IF x.k = "str"
  THEN Str(ReplaceAll(
             ReplaceAll(
               ReplaceAll(
                 ReplaceAll(Lower(x.s), <<" ">>, <<"_">>),
                 <<"/">>, <<"_">>),
               <<".">>, <<>>),
             <<"-", "4">>, <<"u", "n", "k", "n", "o", "w", "n">>))
  ELSE NA

TopN == 30

Other == Str(<<"o", "t", "h", "e", "r">>)

\* The distinct values of a column that are not missing.
Levels(v) == {v[i] : i \in {j \in 1..Len(v) : v[j].k # "na"}}

CountOf(v, x) == Cardinality({i \in 1..Len(v) : v[i] = x})

\* The subsets of S with k elements.
RECURSIVE KSubsets(_, _)
KSubsets(S, k) ==
  IF k = 0 THEN {{}}
  ELSE IF Cardinality(S) < k THEN {}
  ELSE IF Cardinality(S) = k THEN {S}
  ELSE LET x == CHOOSE y \in S : TRUE IN
       {T \cup {x} : T \in KSubsets(S \ {x}, k - 1)} \cup KSubsets(S \ {x}, k)

\* The n most frequent values of a column: value_counts drops the missing
\* values and sorts by count; which of the values of equal count come first
\* is left to the sort, so every choice among them is a possible list.
MostFrequent(v, n) ==
  LET L == Levels(v) IN
  IF Cardinality(L) <= n THEN {L}
  ELSE
    LET t == CHOOSE m \in {CountOf(v, x) : x \in L} :
               /\ Cardinality({x \in L : CountOf(v, x) >= m}) >= n
               /\ Cardinality({x \in L : CountOf(v, x) > m}) < n
        above == {x \in L : CountOf(v, x) > t}
        tied == {x \in L : CountOf(v, x) = t}
        out == Cardinality(tied) - (n - Cardinality(above))
    IN  {above \cup (tied \ D) : D \in KSubsets(tied, out)}

\* A list one short: index[:29].
TopLevelsShort(v) == MostFrequent(v, TopN - 1)

\* list(pd.value_counts(data[c]).index[:30])
TopLevels(v) == MostFrequent(v, TopN)

\* data[c].apply(lambda x: x if x in counts else 'other')
GroupLevels(v, counts) ==
  [i \in 1..Len(v) |-> IF v[i] \in counts THEN v[i] ELSE Other]

\* The levels of a column in sort order.
RECURSIVE SortLevels(_)
SortLevels(S) ==
  IF S = {} THEN <<>>
  ELSE LET m == CHOOSE x \in S : \A y \in S \ {x} : CellLess(x, y)
       IN  <<m>> \o SortLevels(S \ {m})

\* drop_first=False
DropNone(levels) == levels

\* drop_first=True
DropFirst(levels) == IF levels = <<>> THEN <<>> ELSE Tail(levels)

\* pd.get_dummies(data[c], prefix=c, drop_first=True): one 0/1 column for
\* each level of the column but the first, over the rows of idx.
GetDummies(idx, name, v) ==
  LET lv == DropFirst(SortLevels(Levels(v))) IN
  [idx |-> idx,
   cols |-> [j \in 1..Len(lv) |-> Dummy(name.src, lv[j])],
   c |-> [j \in 1..Len(lv) |->
            [dt |-> "uint8",
             v |-> [r \in 1..Len(v) |-> IF v[r] = lv[j] THEN IntC(1) ELSE IntC(0)]]]]

\* cat_cols of line 190 and of line 211.
TextCatCols(meta) ==
  ColumnNames(SelectSeq2(meta,
    [i \in 1..Len(meta) |-> meta[i].categorical = 1 /\ meta[i].data_type = "object"]))

NumCatCols(meta) ==
  ColumnNames(SelectSeq2(meta,
    [i \in 1..Len(meta) |-> meta[i].categorical = 1 /\ meta[i].data_type # "object"]))

\* data[c].apply(clean_string)
CleanedColumn(t, name) == [r \in 1..NRows(t) |-> clean_string(Column(t, name).v[r])]

\* One pass of the loop of lines 194-208 for column name, with counts the
\* list value_counts gave.
EncodeTextColumn(t, name, counts) ==
  LET grouped == GroupLevels(CleanedColumn(t, name), counts)
      t1 == SetColumn(t, name, ObjSeries(grouped))
      df == GetDummies(t1.idx, name, grouped)
  IN  DropColumn(LeftJoin(t1, t1.idx, df), name)

\* pd.to_numeric(x, downcast='integer') of one cell: a float without a
\* fraction becomes an integer.
ToNumericDowncast(x) ==
  LET y == ToNumeric(x) IN IF y.k = "float" /\ y.e = 0 THEN IntC(y.n) ELSE y

\* One pass of the loop of lines 215-225; err is the ValueError of a string
\* that spells no number.
EncodeNumColumn(t, name) ==
  LET v == [r \in 1..NRows(t) |-> ToNumericDowncast(Column(t, name).v[r])] IN
  IF \E r \in 1..Len(v) : v[r].k = "bad" THEN [err |-> "ValueError", t |-> t]
  ELSE
    LET col == NumSeries(v)
        t1 == SetColumn(t, name, col)
        df == GetDummies(t1.idx, name, col.v)
    IN  [err |-> "", t |-> DropColumn(LeftJoin(t1, t1.idx, df), name)]

\* ------------------------------------------------------------- the script

VARIABLES
  files,         \* the six input files, as read from disk
  pc,            \* the section of the script that runs next
  err,           \* the exception that ended the run ("" when none did)
  data,          \* the working table
  data_adas, data_demo, data_fam, data_tom,   \* the auxiliary tables
  data_meta,     \* the registry entries kept
  data_for_viz,  \* the snapshot
  written,       \* the artifacts written so far
  viz_csv,       \* data_all_no_encode.csv
  all_csv,       \* data_all.csv
  cat_i,         \* the position of the running encoder loop in its cat_cols
  bcol, bprev, bstage   \* a column under repeated level grouping

vars ==
  << files, pc, err, data, data_adas, data_demo, data_fam, data_tom, data_meta,
     data_for_viz, written, viz_csv, all_csv, cat_i, bcol, bprev, bstage >>

bvars == << bcol, bprev, bstage >>

\* An uncaught exception ends the script where it is raised.
Abort(e) ==
  /\ pc' = "aborted"
  /\ err' = e
  /\ UNCHANGED << files, data, data_adas, data_demo, data_fam, data_tom, data_meta,
                  data_for_viz, written, viz_csv, all_csv, cat_i, bvars >>

\* Lines 13-16.
LoadPrimary ==
  /\ pc = "load_primary"
  /\ LET t == IndexRidVis(ReadCsv(files.primary)) IN
     IF ~VerifyIntegrity(t.idx) THEN Abort("DuplicateKey")
     ELSE /\ data' = t
          /\ pc' = "load_adas"
          /\ UNCHANGED << files, err, data_adas, data_demo, data_fam, data_tom,
                          data_meta, data_for_viz, written, viz_csv, all_csv, cat_i,
                          bvars >>

\* Lines 25-38.
LoadAdas ==
  /\ pc = "load_adas"
  /\ LET t == IndexRidVis(ReadCsv(files.adas)) IN
     IF ~VerifyIntegrity(t.idx) THEN Abort("DuplicateKey")
     ELSE LET a == AdasRename(SelectCols(t, AdasKeep(t.cols))) IN
          /\ data_adas' = a
          /\ data' = LeftJoin(data, data.idx, a)
          /\ pc' = "load_demo"
          /\ UNCHANGED << files, err, data_demo, data_fam, data_tom, data_meta,
                          data_for_viz, written, viz_csv, all_csv, cat_i, bvars >>

\* Lines 49-73.
LoadDemo ==
  /\ pc = "load_demo"
  /\ LET raw == ReadCsv(files.demo)
         t == FilterRows(raw, LatestMask(raw.idx))
     IN  IF MissingCols(t, DemoCols) # {} THEN Abort("KeyError")
         ELSE LET d == IndexRid(SelectCols(t, DemoCols)) IN
              IF ~VerifyIntegrity(d.idx) THEN Abort("DuplicateKey")
              ELSE /\ data_demo' = d
                   /\ data' = LeftJoin(data, RidOf(data.idx), d)
                   /\ pc' = "load_fam"
                   /\ UNCHANGED << files, err, data_adas, data_fam, data_tom,
                                   data_meta, data_for_viz, written, viz_csv,
                                   all_csv, cat_i, bvars >>

\* Lines 82-103.
LoadFam ==
  /\ pc = "load_fam"
  /\ LET raw == ReadCsv(files.fam)
         t == FilterRows(raw, ScreeningMask(raw.idx))
     IN  IF MissingCols(t, FamCols) # {} THEN Abort("KeyError")
         ELSE LET d == IndexRid(SelectCols(t, FamCols)) IN
              IF ~VerifyIntegrity(d.idx) THEN Abort("DuplicateKey")
              ELSE /\ data_fam' = d
                   /\ data' = LeftJoin(data, RidOf(data.idx), d)
                   /\ pc' = "load_tom"
                   /\ UNCHANGED << files, err, data_adas, data_demo, data_tom,
                                   data_meta, data_for_viz, written, viz_csv,
                                   all_csv, cat_i, bvars >>

\* Lines 112-121.
LoadTom ==
  /\ pc = "load_tom"
  /\ LET t == IndexRid(ReadCsv(files.tom)) IN
     IF ~VerifyIntegrity(t.idx) THEN Abort("DuplicateKey")
     ELSE IF MissingCols(t, TomCols) # {} THEN Abort("KeyError")
     ELSE LET d == SelectCols(t, TomCols) IN
          /\ data_tom' = d
          /\ data' = LeftJoin(data, RidOf(data.idx), d)
          /\ pc' = "filter"
          /\ UNCHANGED << files, err, data_adas, data_demo, data_fam, data_meta,
                          data_for_viz, written, viz_csv, all_csv, cat_i, bvars >>

\* Lines 129-136.
MetadataFilter ==
  /\ pc = "filter"
  /\ LET meta == KeptMeta(files.meta)
         cols == ColumnNames(meta)
     IN  IF MissingCols(data, cols) # {} THEN Abort("KeyError")
         ELSE /\ data_meta' = meta
              /\ data' = FilterCols(data, cols)
              /\ pc' = "clean_num"
              /\ UNCHANGED << files, err, data_adas, data_demo, data_fam, data_tom,
                              data_for_viz, written, viz_csv, all_csv, cat_i, bvars >>

\* Lines 145-159.
CleanNumerical ==
  /\ pc = "clean_num"
  /\ LET a == CleanNumeric(data, data_meta) IN
     IF a.err # "" THEN Abort(a.err)
     ELSE /\ data' = a.t
          /\ pc' = "export_viz"
          /\ UNCHANGED << files, err, data_adas, data_demo, data_fam, data_tom,
                          data_meta, data_for_viz, written, viz_csv, all_csv, cat_i,
                          bvars >>

\* The section that follows when the loop over text (kind = 1) or numeric
\* (kind = 2) categorical columns has done i of its passes.
AfterPass(kind, i, meta) ==
  IF kind = 1 /\ i < Len(TextCatCols(meta)) THEN "encode_text"
  ELSE IF (kind = 1 \/ i < Len(NumCatCols(meta))) /\ Len(NumCatCols(meta)) > 0
       THEN "encode_num"
  ELSE "time_factors"

\* Lines 165-172.
ExportViz ==
  /\ pc = "export_viz"
  /\ IF ~HasCol(data, Col("PTRTYR")) THEN Abort("KeyError")
     ELSE LET copy == data
              viz == SetColumn(copy, Col("PTRTYR"),
                               RetireYearViz(Column(copy, Col("PTRTYR"))))
          IN  /\ data_for_viz' = viz
              /\ data' = DeepCopyKeeps(data, viz)
              /\ viz_csv' = viz
              /\ written' = written \cup {"viz"}
              /\ pc' = AfterPass(1, 0, data_meta)
              /\ cat_i' = 1
              /\ UNCHANGED << files, err, data_adas, data_demo, data_fam, data_tom,
                              data_meta, all_csv, bvars >>

\* Lines 194-208, one pass.
EncodeText ==
  /\ pc = "encode_text"
  /\ LET c == TextCatCols(data_meta)[cat_i] IN
     IF ~HasCol(data, c) THEN Abort("KeyError")
     ELSE \E counts \in TopLevels(CleanedColumn(data, c)) :
            /\ data' = EncodeTextColumn(data, c, counts)
            /\ pc' = AfterPass(1, cat_i, data_meta)
            /\ cat_i' = IF cat_i < Len(TextCatCols(data_meta)) THEN cat_i + 1 ELSE 1
            /\ UNCHANGED << files, err, data_adas, data_demo, data_fam, data_tom,
                            data_meta, data_for_viz, written, viz_csv, all_csv,
                            bvars >>

\* Lines 215-225, one pass.
EncodeNum ==
  /\ pc = "encode_num"
  /\ LET c == NumCatCols(data_meta)[cat_i] IN
     IF ~HasCol(data, c) THEN Abort("KeyError")
     ELSE LET a == EncodeNumColumn(data, c) IN
          IF a.err # "" THEN Abort(a.err)
          ELSE /\ data' = a.t
               /\ pc' = AfterPass(2, cat_i, data_meta)
               /\ cat_i' = cat_i + 1
               /\ UNCHANGED << files, err, data_adas, data_demo, data_fam,
                               data_tom, data_meta, data_for_viz, written, viz_csv,
                               all_csv, bvars >>

\* Lines 233-237.
TimeFactors ==
  /\ pc = "time_factors"
  /\ IF ~HasCol(data, Col("PTRTYR")) THEN Abort("KeyError")
     ELSE LET t == SetColumn(data, Col("PTRTYR"), RetireYear(Column(data, Col("PTRTYR"))))
          IN  /\ data' = t
              /\ all_csv' = t
              /\ written' = written \cup {"all"}
              /\ pc' = "done"
              /\ UNCHANGED << files, err, data_adas, data_demo, data_fam, data_tom,
                              data_meta, data_for_viz, viz_csv, cat_i, bvars >>

\* ------------------------------------------------------------- the inputs

MaxPrimaryRows == 3
MaxAuxRows == 3
MaxDate == 2

SeqsUpTo(S, n) == UNION {[1..k -> S] : k \in 0..n}

Subjects == {1, 2}

Visits == {"bl", "m06"}

\* The fields the files hold, as text.
F_empty == <<>>
F_blank == <<" ">>
F_lt80 == <<"<", "8", "0">>
F_120 == <<"1", "2", "0">>
F_abc == <<"a", "b", "c">>
F_gt1300 == <<">", "1", "3", "0", "0">>
F_lt8 == <<"<", "8">>
F_MCI == <<"M", "C", "I">>
F_mci == <<"m", "c", "i">>
F_AD == <<"A", "D">>
F_m4 == <<"-", "4">>
F_1 == <<"1">>
F_2 == <<"2">>
F_x == <<"x">>
F_10p5 == <<"1", "0", ".", "5">>
F_12 == <<"1", "2">>
F_y1997 == <<"6", "/", "1", "9", "9", "7">>
F_1998 == <<"1", "9", "9", "8">>

AbetaFields == {F_lt80, F_120, F_blank, F_abc, F_empty}
DxFields == {F_MCI, F_mci, F_AD, F_m4, F_empty}
RetireFields == {F_y1997, F_1998, F_x, F_empty}
HandFields == {F_1, F_2, F_x, F_empty}

PrimaryFileCols ==
  << "ABETA_UPENNBIOMK9_04_19_17", "TAU_UPENNBIOMK9_04_19_17",
     "PTAU_UPENNBIOMK9_04_19_17", "DX" >>

AdasFileCols == << "ID", "SITEID", "VISCODE2", "USERDATE", "EXAMDATE", "Q1", "Q4" >>

DemoFileCols ==
  << "PTGENDER", "PTHAND", "PTWORK", "PTWRECNT", "PTNOTRT", "PTRTYR", "PTHOME",
     "PTTLANG", "PTPLANG" >>

FamFileCols ==
  << "FHQPROV", "FHQMOM", "FHQMOMAD", "FHQDAD", "FHQDADAD", "FHQSIB" >>

TomFileCols == << "TOMM40_A1", "TOMM40_A2", "UPDATE_STAMP" >>

PrimaryRow(rid, vis, abeta, dx) ==
  [rid |-> rid, vis |-> vis, date |-> 0, f |-> <<abeta, F_gt1300, F_lt8, dx>>]

AdasRow(rid, vis) ==
  [rid |-> rid, vis |-> vis, date |-> 0,
   f |-> <<F_1, F_2, F_empty, F_empty, F_empty,
           IF vis = "bl" THEN F_10p5 ELSE F_12, F_empty>>]

DemoRow(rid, date, hand, rtyr) ==
  [rid |-> rid, vis |-> "sc", date |-> date,
   f |-> <<F_1, hand, F_empty, F_empty, F_empty, rtyr, F_empty, F_empty, F_empty>>]

FamRow(rid, vis) ==
  [rid |-> rid, vis |-> vis, date |-> 0,
   f |-> <<F_empty, IF rid = 1 THEN F_1 ELSE F_2, F_empty, F_empty, F_empty, F_empty>>]

TomRow(rid) ==
  [rid |-> rid, vis |-> "bl", date |-> 0, f |-> <<F_12, F_empty, F_empty>>]

File(cols, rows) == [cols |-> cols, rows |-> rows]

\* The files of a run without surprises: three visits of two subjects.
BasePrimary ==
  File(PrimaryFileCols,
       << PrimaryRow(1, "bl", F_lt80, F_MCI), PrimaryRow(1, "m06", F_120, F_AD),
          PrimaryRow(2, "bl", F_lt80, F_MCI) >>)

BaseAdas == File(AdasFileCols, << AdasRow(1, "bl"), AdasRow(2, "bl") >>)

BaseDemo ==
  File(DemoFileCols,
       << DemoRow(1, 1, F_1, F_y1997), DemoRow(1, 2, F_2, F_1998),
          DemoRow(2, 1, F_1, F_y1997) >>)

BaseFam == File(FamFileCols, << FamRow(1, "sc"), FamRow(1, "bl"), FamRow(2, "sc") >>)

BaseTom == File(TomFileCols, << TomRow(2) >>)

Entry(name, keep, numeric, categorical, data_type) ==
  [column_name |-> name, keep |-> keep, numeric |-> numeric,
   categorical |-> categorical, data_type |-> data_type]

Reverse(s) == [i \in 1..Len(s) |-> s[Len(s) + 1 - i]]

RetireModes == {"plain", "numeric", "cat_text", "cat_num"}

\* A registry: the keep flags of four of its entries, what it declares the
\* retirement year to be, whether it lists a column no table has (ghost: 0
\* no, 1 with keep = 0, 2 with keep = 1) and the order of its entries.
Registry(kDX, kTAU, kRT, kADAS, mode, ghost, rev) ==
  LET base ==
        << Entry("ABETA_UPENNBIOMK9_04_19_17", 1, 1, 0, "object"),
           Entry("TAU_UPENNBIOMK9_04_19_17", kTAU, 1, 0, "object"),
           Entry("PTAU_UPENNBIOMK9_04_19_17", 1, 1, 0, "object"),
           Entry("DX", kDX, 0, 1, "object"),
           Entry("ADAS_Q1", kADAS, 1, 0, "float64"),
           Entry("ADAS_ID", 0, 0, 0, "int64"),
           Entry("PTHAND", 1, 0, 1, "float64"),
           Entry("PTRTYR", kRT,
                 IF mode = "numeric" THEN 1 ELSE 0,
                 IF mode \in {"cat_text", "cat_num"} THEN 1 ELSE 0,
                 IF mode = "cat_num" THEN "float64" ELSE "object"),
           Entry("PTWORK", 0, 0, 1, "object"),
           Entry("FHQMOM", 1, 0, 1, "float64"),
           Entry("TOMM40_A1", 1, 0, 0, "float64") >>
      all == IF ghost = 0 THEN base
             ELSE Append(base, Entry("GHOST", ghost - 1, 0, 0, "object"))
  IN  IF rev THEN Reverse(all) ELSE all

BaseMeta == Registry(1, 1, 1, 1, "plain", 0, FALSE)

Registries ==
  {Registry(kDX, kTAU, kRT, kADAS, mode, ghost, rev) :
     kDX \in {0, 1}, kTAU \in {0, 1}, kRT \in {0, 1}, kADAS \in {0, 1},
     mode \in RetireModes, ghost \in {0, 1, 2}, rev \in BOOLEAN}

BaseFiles ==
  [primary |-> BasePrimary, adas |-> BaseAdas, demo |-> BaseDemo, fam |-> BaseFam,
   tom |-> BaseTom, meta |-> BaseMeta]

KeySet == Subjects \X Visits

DemoKeys == Subjects \X (0..MaxDate)

\* The primary file with any rows, duplicates of a key among them.
PrimaryFiles ==
  {File(PrimaryFileCols,
        [i \in 1..Len(ks) |->
           PrimaryRow(ks[i][1], ks[i][2], F_lt80, IF ks[i][2] = "bl" THEN F_MCI ELSE F_AD)]) :
     ks \in SeqsUpTo(KeySet, MaxPrimaryRows)}

AdasFiles ==
  {File(AdasFileCols, [i \in 1..Len(ks) |-> AdasRow(ks[i][1], ks[i][2])]) :
     ks \in SeqsUpTo(KeySet, MaxAuxRows)}

DemoFiles ==
  {File(DemoFileCols,
        [i \in 1..Len(ks) |->
           DemoRow(ks[i][1], ks[i][2], IF i = 1 THEN F_1 ELSE F_2,
                   IF i = 2 THEN F_1998 ELSE F_y1997)]) :
     ks \in SeqsUpTo(DemoKeys, MaxAuxRows)}

FamFiles ==
  {File(FamFileCols, [i \in 1..Len(ks) |-> FamRow(ks[i][1], ks[i][2])]) :
     ks \in SeqsUpTo(Subjects \X {"sc", "bl"}, MaxAuxRows)}

TomFiles ==
  {File(TomFileCols, [i \in 1..Len(ks) |-> TomRow(ks[i])]) :
     ks \in SeqsUpTo(Subjects, MaxAuxRows)}

\* The base files with the cells of one column drawn freely.
AbetaFiles ==
  {File(PrimaryFileCols,
        << PrimaryRow(1, "bl", a, F_MCI), PrimaryRow(1, "m06", b, F_AD),
           PrimaryRow(2, "bl", c, F_MCI) >>) :
     a \in AbetaFields, b \in AbetaFields, c \in AbetaFields}

DxFiles ==
  {File(PrimaryFileCols,
        << PrimaryRow(1, "bl", F_lt80, a), PrimaryRow(1, "m06", F_120, b),
           PrimaryRow(2, "bl", F_lt80, c) >>) :
     a \in DxFields, b \in DxFields, c \in DxFields}

ValueDemoFiles ==
  {File(DemoFileCols, << DemoRow(1, 1, h1, r1), DemoRow(2, 1, h2, r2) >>) :
     h1 \in HandFields, h2 \in HandFields, r1 \in RetireFields, r2 \in RetireFields}

RetireMetas == {Registry(1, 1, 1, 1, mode, 0, FALSE) : mode \in RetireModes}

\* The inputs of the runs explored: the base files with one of them replaced.
Inputs ==
  {[BaseFiles EXCEPT !.primary = f] : f \in PrimaryFiles \cup AbetaFiles \cup DxFiles}
    \cup {[BaseFiles EXCEPT !.adas = f] : f \in AdasFiles}
    \cup {[BaseFiles EXCEPT !.demo = f] : f \in DemoFiles}
    \cup {[BaseFiles EXCEPT !.fam = f] : f \in FamFiles}
    \cup {[BaseFiles EXCEPT !.tom = f] : f \in TomFiles}
    \cup {[BaseFiles EXCEPT !.demo = f, !.meta = m] :
            f \in ValueDemoFiles, m \in RetireMetas}
    \cup {[BaseFiles EXCEPT !.meta = m] : m \in Registries}

BucketIdle ==
  /\ bcol = <<>>
  /\ bprev = <<>>
  /\ bstage = "idle"

Init ==
  /\ files \in Inputs
  /\ pc = "load_primary"
  /\ err = ""
  /\ data = NoFrame
  /\ data_adas = NoFrame
  /\ data_demo = NoFrame
  /\ data_fam = NoFrame
  /\ data_tom = NoFrame
  /\ data_meta = <<>>
  /\ data_for_viz = NoFrame
  /\ written = {}
  /\ viz_csv = NoFrame
  /\ all_csv = NoFrame
  /\ cat_i = 1
  /\ BucketIdle

Next ==
  \/ LoadPrimary
  \/ LoadAdas
  \/ LoadDemo
  \/ LoadFam
  \/ LoadTom
  \/ MetadataFilter
  \/ CleanNumerical
  \/ ExportViz
  \/ EncodeText
  \/ EncodeNum
  \/ TimeFactors

Spec == Init /\ [][Next]_vars

\* ------------------------------------------- level grouping, applied twice

MaxLevels == 31
MaxMissing == 1
MaxOther == 1

Lvl(i) == Str(<<"v", DigitChars[(i \div 10) + 1], DigitChars[(i % 10) + 1]>>)

\* A cleaned column: d distinct values, the first h of them twice, m missing
\* values and o values that are the string 'other'.
BucketColumn(d, h, m, o) ==
  [i \in 1..d |-> Lvl(i)] \o [i \in 1..h |-> Lvl(i)]
    \o [i \in 1..m |-> NA] \o [i \in 1..o |-> Other]

BucketColumns ==
  UNION {{BucketColumn(d, h, m, o) :
            h \in {0, Min(d, TopN - 1)}, m \in 0..MaxMissing, o \in 0..MaxOther} :
         d \in 0..MaxLevels}

InitBucket ==
  /\ files = BaseFiles
  /\ pc = "bucket"
  /\ err = ""
  /\ data = NoFrame
  /\ data_adas = NoFrame
  /\ data_demo = NoFrame
  /\ data_fam = NoFrame
  /\ data_tom = NoFrame
  /\ data_meta = <<>>
  /\ data_for_viz = NoFrame
  /\ written = {}
  /\ viz_csv = NoFrame
  /\ all_csv = NoFrame
  /\ cat_i = 1
  /\ bcol \in BucketColumns
  /\ bprev = <<>>
  /\ bstage = "raw"

\* Lines 200-201 on a cleaned column.
GroupOnce ==
  /\ bstage = "raw"
  /\ \E counts \in TopLevels(bcol) :
       /\ bcol' = GroupLevels(bcol, counts)
       /\ bprev' = bcol
       /\ bstage' = "once"
  /\ UNCHANGED << files, pc, err, data, data_adas, data_demo, data_fam, data_tom,
                  data_meta, data_for_viz, written, viz_csv, all_csv, cat_i >>

\* Lines 200-201 again, on the column they produced.
GroupAgain ==
  /\ bstage = "once"
  /\ \E counts \in TopLevels(bcol) :
       /\ bcol' = GroupLevels(bcol, counts)
       /\ bprev' = bcol
       /\ bstage' = "twice"
  /\ UNCHANGED << files, pc, err, data, data_adas, data_demo, data_fam, data_tom,
                  data_meta, data_for_viz, written, viz_csv, all_csv, cat_i >>

NextBucket ==
  \/ GroupOnce
  \/ GroupAgain

SpecBucket == InitBucket /\ [][NextBucket]_vars

\* ------------------------------------------------------------- properties

PrimaryKeys ==
  [r \in 1..Len(files.primary.rows) |->
     [rid |-> files.primary.rows[r].rid, vis |-> files.primary.rows[r].vis]]

Joined == {"load_demo", "load_fam", "load_tom", "filter"}

PostLoad ==
  {"load_adas", "load_demo", "load_fam", "load_tom", "filter", "clean_num",
   "export_viz", "encode_text", "encode_num", "time_factors", "done"}

PostDemo == PostLoad \ {"load_adas", "load_demo"}

PostFilter == {"clean_num", "export_viz", "encode_text", "encode_num", "time_factors", "done"}

Encoding == {"encode_text", "encode_num", "time_factors", "done"}

\* The rows of data that have no row of the auxiliary table aux, keyed by
\* lkeys, hold a missing value in every column of aux.
UnmatchedMissing(aux, lkeys) ==
  \A r \in 1..NRows(data) :
    lkeys[r] \notin SeqSet(aux.idx) =>
      \A j \in 1..Len(aux.cols) : Column(data, aux.cols[j]).v[r] = NA

\* The indicator columns of source column name in table t.
Indicators(t, name) ==
  {j \in 1..Len(t.cols) : t.cols[j].src = name.src /\ t.cols[j].lvl # NoLvl}

\* C1: after the load and after every join, filter and encoder pass the row
\* keys of the working table are the primary file's keys, in its order; both
\* artifacts carry these keys; and a row without a match in an auxiliary
\* table holds missing values in that table's columns.
C1_KeysPreserved ==
  /\ pc \in PostLoad => data.idx = PrimaryKeys
  /\ "viz" \in written => viz_csv.idx = PrimaryKeys
  /\ "all" \in written => all_csv.idx = PrimaryKeys
  /\ pc \in Joined => UnmatchedMissing(data_adas, data.idx)
  /\ pc \in Joined \ {"load_demo"} => UnmatchedMissing(data_demo, RidOf(data.idx))
  /\ pc \in {"load_tom", "filter"} => UnmatchedMissing(data_fam, RidOf(data.idx))
  /\ pc = "filter" => UnmatchedMissing(data_tom, RidOf(data.idx))

\* A run that wrote both artifacts for three primary rows, one of them without
\* a TOMM40 row and one without an ADAS row, with indicator columns joined.
C1_Witness ==
  /\ pc = "done"
  /\ written = {"viz", "all"}
  /\ Len(PrimaryKeys) = 3
  /\ \E r \in 1..3 : PrimaryKeys[r].rid \notin SeqSet(data_tom.idx)
  /\ \E r \in 1..3 : PrimaryKeys[r] \notin SeqSet(data_adas.idx)
  /\ \E j \in 1..Len(all_csv.cols) : all_csv.cols[j].lvl # NoLvl

\* The row the selector is to keep for the subject of row i: the first, in
\* file order, of the subject's rows with the greatest timestamp.
FirstLatestMask(keys) ==
  [i \in 1..Len(keys) |->
     \A j \in 1..Len(keys) :
       keys[j].rid = keys[i].rid =>
         \/ keys[j].date < keys[i].date
         \/ keys[j].date = keys[i].date /\ i <= j]

\* C2: the demographics table joined holds, for every subject of the file,
\* exactly the first of the subject's rows with the greatest timestamp.
C2_LatestPerSubject ==
  pc \in PostDemo =>
    LET raw == ReadCsv(files.demo) IN
    data_demo = IndexRid(SelectCols(FilterRows(raw, FirstLatestMask(raw.idx)), DemoCols))

\* C3: no run ends in the ValueError of pd.to_numeric.
C3_CoercionNeverAborts == err # "ValueError"

C5_MissingAllZero ==
  pc \in Encoding =>
    \A i \in 1..Len(TextCatCols(data_meta)) :
      LET c == TextCatCols(data_meta)[i] IN
      ~HasCol(data, c) =>
        \A r \in 1..NRows(data) :
          LET ones == {j \in Indicators(data, c) : data.c[j].v[r] = IntC(1)} IN
          /\ Cardinality(ones) <= 1
          /\ c # Col("PTRTYR") /\ Column(data_for_viz, c).v[r] = NA => ones = {}

\* The keys the script declares unique.
ScreeningRids ==
  LET m == SelectIdx(ScreeningMask(files.fam.rows), 1, Len(files.fam.rows)) IN
  [i \in 1..Len(m) |-> files.fam.rows[m[i]].rid]

LatestRids ==
  LET m == SelectIdx(LatestMask(files.demo.rows), 1, Len(files.demo.rows)) IN
  [i \in 1..Len(m) |-> files.demo.rows[m[i]].rid]

DuplicateInput ==
  \/ HasDup(PrimaryKeys)
  \/ HasDup([r \in 1..Len(files.adas.rows) |->
               [rid |-> files.adas.rows[r].rid, vis |-> files.adas.rows[r].vis]])
  \/ HasDup(RidOf(files.tom.rows))
  \/ HasDup(ScreeningRids)
  \/ HasDup(LatestRids)

\* C6: a duplicate key in a table declared unique ends the run in the load
\* sections, before any artifact is written, and every auxiliary table that
\* was joined has unique keys.
C6_DuplicateKeysAbort ==
  /\ DuplicateInput => written = {} /\ pc \notin {"filter"} \cup PostFilter
  /\ ~HasDup(data_adas.idx)
  /\ ~HasDup(data_demo.idx)
  /\ ~HasDup(data_fam.idx)
  /\ ~HasDup(data_tom.idx)

\* A run ended by two screening rows of one subject in the family history.
C6_Witness ==
  /\ pc = "aborted"
  /\ err = "DuplicateKey"
  /\ HasDup(ScreeningRids)
  /\ data_demo # NoFrame
  /\ written = {}

\* C7: the retirement year of the encoded artifact equals, row by row, the
\* retirement year of the snapshot.
C7_RetireYearAgrees ==
  "all" \in written =>
    Column(all_csv, Col("PTRTYR")) = Column(viz_csv, Col("PTRTYR"))

\* Both artifacts written, the retirement year a number in one row and
\* missing in another, and indicator columns in the encoded table.
C7_Witness ==
  /\ written = {"viz", "all"}
  /\ \E r \in 1..NRows(all_csv) : IsNum(Column(all_csv, Col("PTRTYR")).v[r])
  /\ \E r \in 1..NRows(all_csv) : IsNA(Column(all_csv, Col("PTRTYR")).v[r])
  /\ \E j \in 1..Len(all_csv.cols) : all_csv.cols[j].lvl # NoLvl

\* The columns of the joined table, from the files' headers.
JoinedCols ==
  {Col(files.primary.cols[j]) : j \in 1..Len(files.primary.cols)}
    \cup {Col("ADAS_" \o AdasKeep(files.adas.cols)[j]) :
            j \in 1..Len(AdasKeep(files.adas.cols))}
    \cup SeqSet(DemoCols) \cup SeqSet(FamCols) \cup SeqSet(TomCols)

KeptNames ==
  LET m == SelectIdx([i \in 1..Len(files.meta) |-> files.meta[i].keep = 1],
                     1, Len(files.meta))
  IN  [i \in 1..Len(m) |-> Col(files.meta[m[i]].column_name)]

\* C8: after the filter the columns are the registry's entries with keep = 1,
\* in the registry's order; when such an entry names no column of the joined
\* table the run ends at the filter, with no artifact written.
C8_FilterColumns ==
  /\ pc = "clean_num" => data.cols = KeptNames
  /\ SeqSet(KeptNames) \ JoinedCols # {} => pc \notin PostFilter /\ written = {}

\* A filtered table under a registry in reverse order that flags some
\* columns with keep = 0.
C8_Witness ==
  /\ pc = "clean_num"
  /\ Len(data.cols) < Len(files.meta)
  /\ data.cols[1] = Col("TOMM40_A1")
  /\ Len(data.cols) >= 6

\* The levels named by the indicator columns of name in t.
IndicatorLevels(t, name) == {t.cols[j].lvl : j \in Indicators(t, name)}

\* The indicators of a column with levels L: none for the smallest level,
\* one for every other level.
AllButSmallest(L, ind) ==
  \/ L = {} /\ ind = {}
  \/ \E m \in L : /\ \A y \in L \ {m} : CellLess(m, y)
                  /\ ind = L \ {m}

\* C9: a pass of either encoder loop removes the source column and appends
\* one indicator column for every level of the column after grouping except
\* the smallest in sort order: one fewer than the levels, none when the
\* column has no level or one.
C9_IndicatorCount ==
  [][/\ pc = "encode_text" /\ pc' # "aborted" =>
         LET c == TextCatCols(data_meta)[cat_i] IN
         /\ ~HasCol(data', c)
         /\ Len(data'.cols) = Len(data.cols) - 1 + Cardinality(Indicators(data', c))
         /\ \E counts \in TopLevels(CleanedColumn(data, c)) :
              LET L == Levels(GroupLevels(CleanedColumn(data, c), counts)) IN
              /\ Cardinality(Indicators(data', c)) = Max(0, Cardinality(L) - 1)
              /\ AllButSmallest(L, IndicatorLevels(data', c))
     /\ pc = "encode_num" /\ pc' # "aborted" =>
         LET c == NumCatCols(data_meta)[cat_i]
             L == Levels(NumSeries([r \in 1..NRows(data) |->
                                      ToNumericDowncast(Column(data, c).v[r])]).v)
         IN  /\ ~HasCol(data', c)
             /\ Len(data'.cols) = Len(data.cols) - 1 + Cardinality(Indicators(data', c))
             /\ Cardinality(Indicators(data', c)) = Max(0, Cardinality(L) - 1)
             /\ AllButSmallest(L, IndicatorLevels(data', c))]_vars

\* An encoded table with two indicator columns for the three levels of DX
\* and one for the two levels of the numeric-coded PTHAND.
C9_Witness ==
  /\ pc = "done"
  /\ ~HasCol(data, Col("DX"))
  /\ Cardinality(Indicators(data, Col("DX"))) = 2
  /\ Cardinality(Indicators(data, Col("PTHAND"))) = 1

\* C10: the snapshot section leaves the working table as it is and writes
\* its columns, those the registry keeps, with the cells the normalised
\* table has in every column but the retirement year and with no indicator
\* column; no later section changes the artifact.
C10_SnapshotIndependent ==
  [][/\ pc = "export_viz" /\ pc' # "aborted" =>
         /\ data' = data
         /\ viz_csv'.idx = data.idx
         /\ viz_csv'.cols = data.cols
         /\ viz_csv'.cols = KeptNames
         /\ \A j \in 1..Len(data.cols) :
              /\ data.cols[j].lvl = NoLvl
              /\ data.cols[j] # Col("PTRTYR") => viz_csv'.c[j] = data.c[j]
     /\ "viz" \in written => viz_csv' = viz_csv]_vars

\* The encoder about to run on a working table whose retirement year is
\* still text while the snapshot's is numeric.
C10_Witness ==
  /\ pc = "encode_text"
  /\ "viz" \in written
  /\ Column(data, Col("PTRTYR")).dt = "object"
  /\ Column(viz_csv, Col("PTRTYR")).dt # "object"
  /\ \E r \in 1..NRows(data) : Column(data, Col("PTRTYR")).v[r] # Column(viz_csv, Col("PTRTYR")).v[r]

====
